---- MODULE Spec2Model ----
(***************************************************************************)
(* Model of exporter.py: the poll loop of main(), the endpoint resolver    *)
(* create_docker_client(), the per-container state derivation and the     *)
(* publish/reconcile pass scrape_once() over the five gauges.             *)
(*                                                                         *)
(* Python values are tagged records: [t |-> "none"], [t |-> "str", s],     *)
(* [t |-> "int", n], [t |-> "bool", b], [t |-> "dict", ...]; a key absent  *)
(* from a dict is [t |-> "missing"].  The health score, a float in the     *)
(* source, is kept in tenths (1.0 is 10, 0.5 is 5).                        *)
(***************************************************************************)
EXTENDS Integers, Sequences, FiniteSets, TLC

\* ------------------------------------------------------------------ bounds
MaxContainers == 2      \* containers the runtime may list in one pass
MaxHandles == 2         \* connection handles handed out in one run
MaxRun == 7             \* resolver failures in a row that are followed
MaxListed == 1          \* containers in a list whose pass is followed call by call

\* --------------------------------------------------------------- constants
INTERVAL == 10          \* SCRAPE_INTERVAL default, seconds
BackoffFloor == 1       \* backoff = 1.0
BackoffCeiling == 30    \* min(backoff, 30.0)
Tenths == 10            \* 1.0 in tenths

\* ------------------------------------------------------------ python values
None == [t |-> "none"]
Missing == [t |-> "missing"]
PyStr(x) == [t |-> "str", s |-> x]
PyInt(k) == [t |-> "int", n |-> k]
PyBool(v) == [t |-> "bool", b |-> v]

\* bool(v) of Python for the values the model carries
Truthy(v) ==
    CASE v.t = "none" -> FALSE
      [] v.t = "missing" -> FALSE
      [] v.t = "str" -> v.s # ""
      [] v.t = "int" -> v.n # 0
      [] v.t = "bool" -> v.b
      [] v.t = "dict" -> ~v.empty
      [] OTHER -> TRUE

\* d.get(key): an absent key reads as None
Get(v) == IF v.t = "missing" THEN None ELSE v

\* str.lower() on the status strings the model carries
Lower(x) ==
    CASE x = "Healthy" -> "healthy"
      [] x = "STARTING" -> "starting"
      [] x = "Unhealthy" -> "unhealthy"
      [] OTHER -> x

Min(a, b) == IF a < b THEN a ELSE b

\* ------------------------------------------------------------ the one host
host == "exporter"

Categories == <<"healthy", "starting", "unhealthy", "none">>
CategorySet == {Categories[i] : i \in 1..Len(Categories)}

\* --------------------------------------------------------- state extractor
\* status_to_num(status, has_check), in tenths
status_to_num(status, has_check) ==
    IF ~has_check THEN Tenths
    ELSE CASE status = "healthy" -> Tenths
           [] status = "starting" -> Tenths \div 2
           [] status = "unhealthy" -> 0
           [] OTHER -> 0

\* The timestamps the model carries and datetime.fromisoformat's answer for
\* them: seconds since the epoch, or None when parsing raises.
parse_started_at(v) ==
    IF ~Truthy(v) THEN None
    ELSE IF v.t # "str" THEN None
    ELSE CASE v.s = "2025-11-06T21:27:08Z" -> PyInt(1762464428)
           [] v.s = "2025-11-06T21:27:08.123456789Z" -> PyInt(1762464428)
           [] v.s = "1970-01-01T00:01:40Z" -> PyInt(100)
           [] OTHER -> None

\* float(x) raising ValueError/TypeError
FloatRaises(v) ==
    CASE v.t = "int" -> FALSE
      [] v.t = "bool" -> FALSE
      [] v.t = "str" -> v.s \notin {"0", "5", "9"}
      [] OTHER -> TRUE

\* float(x) when it does not raise
Float(v) ==
    CASE v.t = "int" -> v.n
      [] v.t = "bool" -> IF v.b THEN 1 ELSE 0
      [] v.t = "str" -> (CASE v.s = "5" -> 5 [] v.s = "9" -> 9 [] OTHER -> 0)
      [] OTHER -> 0

\* img = (tags[0] if c.image and c.image.tags else getattr(c.image, "short_id", "unknown")) or "unknown"
ImageLabel(image) ==
    LET v == IF image.t = "none" THEN "unknown"
             ELSE IF Len(image.tags) > 0 THEN image.tags[1]
             ELSE image.short_id
    IN IF v = "" THEN "unknown" ELSE v

\* st = c.attrs.get("State", {}) or {}
StateOf(attrs) ==
    IF Truthy(Get(attrs.State)) THEN attrs.State
    ELSE [t |-> "dict", empty |-> TRUE, Health |-> Missing, Running |-> Missing,
          RestartCount |-> Missing, StartedAt |-> Missing]

\* The body of the per-container try block raises: reload() or the image
\* lookup failed, st is no dict, health is truthy and no dict, or the health
\* status is truthy and no string.
ContainerRaises(c) ==
    \/ c.io # "ok"
    \/ StateOf(c.attrs).t # "dict"
    \/ LET health == Get(StateOf(c.attrs).Health)
       IN /\ Truthy(health)
          /\ \/ health.t # "dict"
             \/ /\ Truthy(Get(health.Status))
                /\ Get(health.Status).t # "str"

\* mutant: the nested State.RestartCount is preferred to the top-level one
RestartCountOf_NestedFirst(attrs) ==
    LET nested == Get(StateOf(attrs).RestartCount)
        rc == IF nested.t = "none" THEN Get(attrs.RestartCount) ELSE nested
        arg == IF Truthy(rc) THEN rc ELSE PyInt(0)
    IN IF FloatRaises(arg) THEN 0 ELSE Float(arg)

\* rc = attrs.get("RestartCount"); if rc is None: rc = st.get("RestartCount");
\* float(rc or 0), 0.0 when float raises
RestartCountOf(attrs) ==
    LET top == Get(attrs.RestartCount)
        rc == IF top.t = "none" THEN Get(StateOf(attrs).RestartCount) ELSE top
        arg == IF Truthy(rc) THEN rc ELSE PyInt(0)
    IN IF FloatRaises(arg) THEN 0 ELSE Float(arg)

\* status and num of the health block
HealthOf(attrs) ==
    LET health == Get(StateOf(attrs).Health)
    IN IF Truthy(health)
       THEN LET raw == Get(health.Status)
                status == Lower(IF Truthy(raw) THEN raw.s ELSE "unknown")
            IN [num |-> status_to_num(status, TRUE),
                status |-> IF status \in {"healthy", "starting", "unhealthy"}
                           THEN status ELSE "none"]
       ELSE [num |-> status_to_num("none", FALSE), status |-> "none"]

\* The facts of one container whose try block does not raise
Derive(c) ==
    LET st == StateOf(c.attrs)
        started == parse_started_at(IF Truthy(Get(st.StartedAt)) THEN Get(st.StartedAt) ELSE PyStr(""))
    IN [labels |-> <<c.name, ImageLabel(c.image), c.short_id, host>>,
        num |-> HealthOf(c.attrs).num,
        status |-> HealthOf(c.attrs).status,
        running |-> IF Truthy(Get(st.Running)) THEN 1 ELSE 0,
        restart_count |-> RestartCountOf(c.attrs),
        started_at |-> IF started.t = "none" THEN 0 ELSE started.n]

\* ------------------------------------------------- what the runtime reports
Names == <<"web", "db", "cache", "queue">>
ShortIds == <<"0a1b2c3d4e", "1f2e3d4c5b", "2a3b4c5d6e", "3f4e5d6c7b">>

Timestamp == "2025-11-06T21:27:08Z"

Dict(health, running, rc, started) ==
    [t |-> "dict", empty |-> FALSE, Health |-> health, Running |-> running,
     RestartCount |-> rc, StartedAt |-> started]

HealthDict(status) == [t |-> "dict", empty |-> FALSE, Status |-> status]

Image(tags, short) == [t |-> "image", tags |-> tags, short_id |-> short]

\* image and attrs as reload() leaves them on the container object
Snapshots ==
    { [image |-> Image(<<"nginx:latest">>, "sha256:ab12"),
       attrs |-> [RestartCount |-> PyInt(0),
                  State |-> Dict(HealthDict(PyStr("healthy")), PyBool(TRUE), Missing, PyStr(Timestamp))]],
      [image |-> Image(<<"nginx:latest">>, "sha256:ab12"),
       attrs |-> [RestartCount |-> PyInt(5),
                  State |-> Dict(HealthDict(PyStr("Unhealthy")), PyBool(TRUE), PyInt(9), PyStr(Timestamp))]],
      [image |-> Image(<<>>, "sha256:cd34"),
       attrs |-> [RestartCount |-> Missing,
                  State |-> Dict(Missing, PyBool(FALSE), PyInt(9), PyStr(""))]],
      [image |-> Image(<<"nginx:latest">>, "sha256:ab12"),
       attrs |-> [RestartCount |-> PyInt(0),
                  State |-> Dict(HealthDict(PyInt(1)), PyBool(TRUE), Missing, PyStr(Timestamp))]] }

\* what reload() and the image lookup of one container do in a pass
IoOutcomes == {"ok", "docker_error"}

Container(i, snap, io) ==
    [name |-> Names[i], short_id |-> ShortIds[i], io |-> io,
     image |-> snap.image, attrs |-> snap.attrs]

Absent == [t |-> "absent"]

\* the states one container can be in when a pass reaches it
ContainerChoices(i) ==
    {Absent}
    \cup {Container(i, snap, "ok") : snap \in Snapshots}
    \cup {Container(i, CHOOSE snap \in Snapshots : TRUE, io) : io \in IoOutcomes \ {"ok"}}

\* every container object a pass can meet
AllContainers == (UNION {ContainerChoices(i) : i \in 1..MaxContainers}) \ {Absent}

\* a Health object without any key
EmptyHealth == [t |-> "dict", empty |-> TRUE, Status |-> Missing]

\* what State.Health can hold
HealthValues ==
    {Missing, None, EmptyHealth, PyStr("healthy")}
    \cup {HealthDict(s) : s \in {Missing, None, PyInt(1)}}
    \cup {HealthDict(PyStr(s)) : s \in {"", "healthy", "Healthy", "starting", "STARTING",
                                        "unhealthy", "Unhealthy", "degraded"}}

\* what the two RestartCount fields can hold
TopRestartCounts == {Missing, None, PyInt(0), PyInt(5), PyStr("5"), PyStr("many")}
NestedRestartCounts == {Missing, PyInt(9), PyStr("many")}

\* what State.StartedAt can hold
StartedAtValues ==
    {Missing, PyStr(""), PyStr(Timestamp), PyStr("2025-11-06T21:27:08.123456789Z"),
     PyStr("yesterday"), PyInt(1762464428)}

\* what attrs["State"] can hold: nothing, None, an empty object, a string, or
\* an object with any of the field values above
StateValues ==
    {Missing, None, PyStr("running"),
     [t |-> "dict", empty |-> TRUE, Health |-> Missing, Running |-> Missing,
      RestartCount |-> Missing, StartedAt |-> Missing]}
    \cup {Dict(h, r, rc, s) : h \in HealthValues, r \in {Missing, PyBool(TRUE), PyBool(FALSE)},
                              rc \in NestedRestartCounts, s \in StartedAtValues}

\* every snapshot a one-container pass is given
ProbeSnapshots ==
    {[image |-> img, attrs |-> [RestartCount |-> rc, State |-> st]] :
        img \in {Image(<<"nginx:latest">>, "sha256:ab12"), Image(<<>>, "sha256:cd34")},
        rc \in TopRestartCounts, st \in StateValues}

ProbeContainers ==
    {Container(1, snap, "ok") : snap \in ProbeSnapshots}
    \cup {Container(1, CHOOSE snap \in Snapshots : TRUE, "docker_error")}

\* the try block up to the publishing lines: whether it raises and, when it
\* does not, the facts it derives
TryBlockOf(c) ==
    IF ContainerRaises(c) THEN [raises |-> TRUE]
    ELSE [raises |-> FALSE, facts |-> Derive(c)]

\* the same, tabulated over the containers the poll loop meets
TryBlock == [c \in AllContainers |-> TryBlockOf(c)]

Tried(c) == IF c \in AllContainers THEN TryBlock[c] ELSE TryBlockOf(c)

\* ---------------------------------------------------------------- gauges
\* A gauge is a function from its published label tuples to their values.
EmptyGauge == [x \in {} |-> 0]

\* metric.labels(*t).set(v)
GaugeSet(g, t, v) == (t :> v) @@ g

\* metric.remove(*t); the KeyError of an absent tuple is swallowed
GaugeRemove(g, t) == [x \in (DOMAIN g) \ {t} |-> g[x]]

\* mutant: stale tuples are never removed
RemoveStale_KeepAll(g, last_set, now_set) == g

\* mutant: the difference is taken the other way round, now_set - last_set
RemoveStale_NewOnes(g, last_set, now_set) == [x \in (DOMAIN g) \ (now_set \ last_set) |-> g[x]]

\* for labels in last_set - now_set: metric.remove(*labels)
RemoveStale(g, last_set, now_set) == [x \in (DOMAIN g) \ (last_set \ now_set) |-> g[x]]

StatusRows(labels) == {Append(labels, Categories[i]) : i \in 1..Len(Categories)}

\* mutant: only the row of the current category is written
OneHotFrom_OnlyHot(k, g, labels, status_value) ==
    GaugeSet(g, Append(labels, status_value), 1)

\* the for loop of set_one_hot, from category k on
RECURSIVE OneHotFrom(_, _, _, _)
OneHotFrom(k, g, labels, status_value) ==
    IF k > Len(Categories) THEN g
    ELSE OneHotFrom(k + 1,
                    GaugeSet(g, Append(labels, Categories[k]),
                             IF Categories[k] = status_value THEN 1 ELSE 0),
                    labels, status_value)

\* set_one_hot: writes the four rows and adds them to the global _last_s
set_one_hot(R, labels, status_value) ==
    [R EXCEPT !.g_status = OneHotFrom(1, @, labels, status_value),
              !.last_s = @ \cup StatusRows(labels)]

\* the five publishing lines of the try block
Publish(R, f) ==
    [set_one_hot(R, f.labels, f.status) EXCEPT
        !.g_health = GaugeSet(@, f.labels, f.num),
        !.now_h = @ \cup {f.labels},
        !.now_s = @ \cup StatusRows(f.labels),
        !.g_running = GaugeSet(@, f.labels, f.running),
        !.now_rn = @ \cup {f.labels},
        !.g_restart = GaugeSet(@, f.labels, f.restart_count),
        !.now_rc = @ \cup {f.labels},
        !.g_started_at = GaugeSet(@, f.labels, f.started_at),
        !.now_sa = @ \cup {f.labels}]

\* one turn of "for c in containers": try the body, log and go on when it raises
ProcessContainer(R, c) == IF Tried(c).raises THEN R ELSE Publish(R, Tried(c).facts)

\* mutant: the first container that raises ends the loop over containers
RECURSIVE ProcessFrom_StopAtRaise(_, _, _)
ProcessFrom_StopAtRaise(i, R, containers) ==
    IF i > Len(containers) \/ Tried(containers[i]).raises THEN R
    ELSE ProcessFrom_StopAtRaise(i + 1, ProcessContainer(R, containers[i]), containers)

RECURSIVE ProcessFrom(_, _, _)
ProcessFrom(i, R, containers) ==
    IF i > Len(containers) THEN R
    ELSE ProcessFrom(i + 1, ProcessContainer(R, containers[i]), containers)

\* mutant: the status gauge is left out of the stale-series removal
Reconcile_KeepStatus(R) ==
    [g_health |-> RemoveStale(R.g_health, R.last_h, R.now_h),
     g_running |-> RemoveStale(R.g_running, R.last_rn, R.now_rn),
     g_restart |-> RemoveStale(R.g_restart, R.last_rc, R.now_rc),
     g_started_at |-> RemoveStale(R.g_started_at, R.last_sa, R.now_sa),
     g_status |-> R.g_status,
     last_h |-> R.now_h, last_s |-> R.now_s, last_rn |-> R.now_rn,
     last_rc |-> R.now_rc, last_sa |-> R.now_sa]

\* "remove stale series" and the final assignment of the baselines
Reconcile(R) ==
    [g_health |-> RemoveStale(R.g_health, R.last_h, R.now_h),
     g_running |-> RemoveStale(R.g_running, R.last_rn, R.now_rn),
     g_restart |-> RemoveStale(R.g_restart, R.last_rc, R.now_rc),
     g_started_at |-> RemoveStale(R.g_started_at, R.last_sa, R.now_sa),
     g_status |-> RemoveStale(R.g_status, R.last_s, R.now_s),
     last_h |-> R.now_h, last_s |-> R.now_s, last_rn |-> R.now_rn,
     last_rc |-> R.now_rc, last_sa |-> R.now_sa]

\* scrape_once after containers.list() returned: registry and baselines after it
scrape_once(reg, containers) ==
    LET R0 == [g_health |-> reg.g_health, g_status |-> reg.g_status,
               g_running |-> reg.g_running, g_restart |-> reg.g_restart,
               g_started_at |-> reg.g_started_at,
               last_h |-> reg.last_h, last_s |-> reg.last_s, last_rn |-> reg.last_rn,
               last_rc |-> reg.last_rc, last_sa |-> reg.last_sa,
               now_h |-> {}, now_s |-> {}, now_rn |-> {}, now_rc |-> {}, now_sa |-> {}]
    IN Reconcile(ProcessFrom(1, R0, containers))

RECURSIVE ListFrom(_, _)
ListFrom(i, ch) ==
    IF i > MaxContainers THEN <<>>
    ELSE IF ch[i] = Absent THEN ListFrom(i + 1, ch)
    ELSE <<ch[i]>> \o ListFrom(i + 1, ch)

\* every answer of client.containers.list(all=True)
ContainerLists ==
    {ListFrom(1, ch) : ch \in {f \in [1..MaxContainers -> UNION {ContainerChoices(i) : i \in 1..MaxContainers}] :
                                  \A i \in 1..MaxContainers : f[i] \in ContainerChoices(i)}}

\* the facts a list yields, computed from the list alone (kept for the properties)
FactsOf(containers) ==
    {TryBlock[containers[i]].facts : i \in {j \in 1..Len(containers) : ~TryBlock[containers[j]].raises}}

\* how the try block of each listed container ends (kept for the properties)
OutcomeOf(containers) ==
    [sid \in {containers[i].short_id : i \in 1..Len(containers)} |->
        LET c == CHOOSE x \in {containers[i] : i \in 1..Len(containers)} : x.short_id = sid
        IN IF c.io # "ok" THEN c.io ELSE IF TryBlock[c].raises THEN "error" ELSE "ok"]

\* each answer with what the properties keep of it
Enumerations ==
    {[containers |-> l, facts |-> FactsOf(l), outcome |-> OutcomeOf(l)] : l \in ContainerLists}

\* ------------------------------------------------------- endpoint resolver
\* An endpoint string is kept as its scheme (the text before "://", as typed)
\* and the rest, cut at "/" (a trailing "/" is a trailing "" segment).
Url(scheme, rest) == [scheme |-> scheme, rest |-> rest]
EmptyUrl == Url("", <<>>)
from_env == Url("from_env", <<>>)

DockerSock == Url("unix", <<"var", "run", "docker.sock">>)
DockerPipe == Url("npipe", <<"", ".", "pipe", "docker_engine">>)

\* str.lower() on the schemes the model carries
LowerScheme(x) ==
    CASE x = "HTTP+DOCKER" -> "http+docker"
      [] x = "Http+Unix" -> "http+unix"
      [] x = "NPIPE" -> "npipe"
      [] x = "UNIX" -> "unix"
      [] OTHER -> x

\* _canonical_unix_path
canonical_unix_path(url) ==
    IF url = EmptyUrl THEN url
    ELSE IF LowerScheme(url.scheme) \in {"http+docker", "http+unix"} THEN DockerSock
    ELSE IF LowerScheme(url.scheme) = "npipe" THEN DockerPipe
    ELSE url

\* str.rstrip("/") on a directory
RECURSIVE RStrip(_)
RStrip(dir) ==
    IF dir # <<>> /\ dir[Len(dir)] = "" THEN RStrip(SubSeq(dir, 1, Len(dir) - 1)) ELSE dir

InsertAt1(list, x) == <<list[1], x>> \o Tail(list)

NoUid == 0
Unset == <<"unset">>

\* DEFAULT_SOCKET_CANDIDATES after the module-level insert: cfg.xdg is
\* XDG_RUNTIME_DIR (Unset when not set or empty), cfg.uid what os.getuid()
\* returns (NoUid when it raises)
DEFAULT_SOCKET_CANDIDATES(cfg) ==
    LET base == <<DockerSock, Url("unix", <<"run", "user", "1000", "docker.sock">>)>>
    IN IF cfg.xdg # Unset
       THEN InsertAt1(base, Url("unix", RStrip(cfg.xdg) \o <<"docker.sock">>))
       ELSE IF cfg.uid # NoUid
       THEN InsertAt1(base, Url("unix", <<"run", "user", ToString(cfg.uid), "docker.sock">>))
       ELSE base

InSeq(x, list) == \E i \in 1..Len(list) : list[i] = x

\* mutant: the defaults are appended without the "not in candidates" test
RECURSIVE AppendDefaults_NoDedup(_, _, _)
AppendDefaults_NoDedup(i, defaults, candidates) ==
    IF i > Len(defaults) THEN candidates
    ELSE AppendDefaults_NoDedup(i + 1, defaults, Append(candidates, canonical_unix_path(defaults[i])))

\* for c in DEFAULT_SOCKET_CANDIDATES: append c_norm when not in candidates
RECURSIVE AppendDefaults(_, _, _)
AppendDefaults(i, defaults, candidates) ==
    IF i > Len(defaults) THEN candidates
    ELSE LET c_norm == canonical_unix_path(defaults[i])
         IN AppendDefaults(i + 1, defaults,
                           IF InSeq(c_norm, candidates) THEN candidates
                           ELSE Append(candidates, c_norm))

\* the candidates list of create_docker_client
Candidates(cfg) ==
    Append(AppendDefaults(1, DEFAULT_SOCKET_CANDIDATES(cfg),
                          IF cfg.host # EmptyUrl THEN <<canonical_unix_path(cfg.host)>> ELSE <<>>),
           from_env)

\* _file_exists_for_unix: env.exists holds the unix endpoints whose path exists
file_exists_for_unix(url, env) == url.scheme = "unix" /\ url \in env.exists

\* base_url of the client docker.from_env() builds
FromEnvBaseUrl == Url("http+docker", <<"localhost">>)

\* str(e) of a failed attempt
Reason == "refused"

NoResult(candidates) ==
    [ok |-> FALSE, used |-> EmptyUrl, candidates |-> candidates, attempts |-> <<>>, errors |-> <<>>]

\* mutant: a candidate whose socket file is missing is attempted like the others
RECURSIVE TryFrom_NoSkip(_, _, _)
TryFrom_NoSkip(i, r, env) ==
    IF i > Len(r.candidates) THEN r
    ELSE LET base == r.candidates[i]
             tried == [r EXCEPT !.attempts = Append(@, base)]
         IN IF base \in env.live
            THEN [tried EXCEPT !.ok = TRUE,
                               !.used = IF base = from_env THEN FromEnvBaseUrl ELSE base]
            ELSE TryFrom_NoSkip(i + 1, [tried EXCEPT !.errors = (base :> Reason) @@ @], env)

\* mutant: a success is remembered and the loop goes on to the next candidate
RECURSIVE TryFrom_LastWins(_, _, _)
TryFrom_LastWins(i, r, env) ==
    IF i > Len(r.candidates) THEN r
    ELSE LET base == r.candidates[i]
             tried == [r EXCEPT !.attempts = Append(@, base)]
         IN IF base # from_env /\ base.scheme = "unix" /\ ~file_exists_for_unix(base, env)
            THEN TryFrom_LastWins(i + 1, r, env)
            ELSE IF base \in env.live
            THEN TryFrom_LastWins(i + 1,
                    [tried EXCEPT !.ok = TRUE,
                                  !.used = IF base = from_env THEN FromEnvBaseUrl ELSE base], env)
            ELSE TryFrom_LastWins(i + 1, [tried EXCEPT !.errors = (base :> Reason) @@ @], env)

\* "for base in candidates", from candidate i on: env.live holds the
\* candidates whose client creation and version() call succeed
RECURSIVE TryFrom(_, _, _)
TryFrom(i, r, env) ==
    IF i > Len(r.candidates) THEN r
    ELSE LET base == r.candidates[i]
             tried == [r EXCEPT !.attempts = Append(@, base)]
         IN IF base # from_env /\ base.scheme = "unix" /\ ~file_exists_for_unix(base, env)
            THEN TryFrom(i + 1, r, env)
            ELSE IF base \in env.live
            THEN [tried EXCEPT !.ok = TRUE,
                               !.used = IF base = from_env THEN FromEnvBaseUrl ELSE base]
            ELSE TryFrom(i + 1, [tried EXCEPT !.errors = (base :> Reason) @@ @], env)

\* create_docker_client: ok with the endpoint used, or not ok (DockerException)
\* with the candidates an error was recorded for
create_docker_client(cfg, env) == TryFrom(1, NoResult(Candidates(cfg)), env)

\* ENV_DOCKER_HOST values (EmptyUrl: not set)
Hosts ==
    {EmptyUrl, DockerSock,
     Url("unix", <<"run", "user", "1000", "docker.sock">>),
     Url("unix", <<"custom", "docker.sock">>),
     Url("HTTP+DOCKER", <<"localhost">>),
     Url("Http+Unix", <<"%2Fcustom%2Fdocker.sock">>),
     Url("NPIPE", <<"", ".", "pipe", "other_engine">>),
     Url("tcp", <<"10.0.0.5:2375">>)}

\* XDG_RUNTIME_DIR values
Xdgs == {Unset, <<"run", "user", "1000">>, <<"run", "user", "1001", "">>, <<"var", "run">>}

\* os.getuid() results
Uids == {NoUid, 1000, 1001}

Configs == [host : Hosts, xdg : Xdgs, uid : Uids]

SeqRange(list) == {list[i] : i \in 1..Len(list)}

\* what the host looks like during one resolver call: the socket files that
\* exist, and the candidates a client can be built for and answers version()
Envs(cfg) ==
    LET cands == SeqRange(Candidates(cfg))
        socks == {c \in cands : c.scheme = "unix"}
    IN UNION {[exists : {ex}, live : SUBSET (ex \cup (cands \ socks))] : ex \in SUBSET socks}

\* every resolver call the model draws, with its result
ResolverRuns ==
    UNION {{[cfg |-> cfg, env |-> env, out |-> create_docker_client(cfg, env)] : env \in Envs(cfg)}
           : cfg \in Configs}

\* a candidate of the call can be connected to
Reachable(x) == \E c \in SeqRange(x.out.candidates) : c \in x.env.live

\* how create_docker_client can end: TRUE it returns, FALSE it raises
\* DockerException; on any host, and on a host with a reachable candidate
ResolverEnds == {x.out.ok : x \in ResolverRuns}
ResolverEndsUp == {x.out.ok : x \in {y \in ResolverRuns : Reachable(y)}}

\* ------------------------------------------------------------------- state
VARIABLES
    g_health, g_status, g_running, g_restart, g_started_at,  \* the five gauges
    last_h, last_s, last_rn, last_rc, last_sa,               \* _last_* baselines
    client,       \* main's client: NoClient or a handle
    backoff,      \* main's backoff
    pc,           \* where main is: "top", "scrape", "sleep", "exited"
    exit_code,    \* sys.exit's code once exited, else Running
    \* what happened, kept for the properties
    issued,       \* handles create_docker_client has returned so far
    discarded,    \* handles main has dropped (client = None)
    used,         \* handle of the last scrape_once call
    reused,       \* some scrape_once call was given a dropped handle
    ev,           \* how the try block of the last iteration ended
    slept,        \* argument of the time.sleep that ended the last iteration, 0 inside one
    runSleeps,    \* sleeps of the resolver failures in a row, latest MaxRun
    runFirst,     \* sleep of the first failure of that run, 0 outside a run
    outcome,      \* last completed pass: short_id -> how its try block ended
    facts,        \* last completed pass: facts derived from its containers
    gone,         \* short_ids with facts in the pass before that the last list does not hold
    \* single calls looked at on their own
    resolution,   \* a create_docker_client call: its configuration, host state and result
    probe,        \* the container a one-container pass was given
    before,       \* the list of the last pass, the registry it left, what followed it
    ops,          \* set/remove calls of the running pass not yet made
    seen,         \* what the HTTP listener last read of g_status
    up            \* the runtime is reachable and answers, from now on

gauges == <<g_health, g_status, g_running, g_restart, g_started_at>>
baselines == <<last_h, last_s, last_rn, last_rc, last_sa>>
passHist == <<outcome, facts, gone>>
loop == <<client, backoff, pc, exit_code,
          issued, discarded, used, reused, ev, slept, runSleeps, runFirst>>
aux == <<resolution, probe, before, ops, seen, up>>
vars == <<gauges, baselines, loop, passHist, aux>>

NoClient == 0
Running == -1
NoCall == [t |-> "nocall"]

Registry ==
    [g_health |-> g_health, g_status |-> g_status, g_running |-> g_running,
     g_restart |-> g_restart, g_started_at |-> g_started_at,
     last_h |-> last_h, last_s |-> last_s, last_rn |-> last_rn,
     last_rc |-> last_rc, last_sa |-> last_sa]

Init ==
    /\ g_health = EmptyGauge /\ g_status = EmptyGauge /\ g_running = EmptyGauge
    /\ g_restart = EmptyGauge /\ g_started_at = EmptyGauge
    /\ last_h = {} /\ last_s = {} /\ last_rn = {} /\ last_rc = {} /\ last_sa = {}
    /\ client = NoClient
    /\ backoff = BackoffFloor
    /\ pc = "top"
    /\ exit_code = Running
    /\ issued = 0 /\ discarded = {} /\ used = NoClient /\ reused = FALSE
    /\ ev = "start" /\ slept = 0 /\ runSleeps = <<>> /\ runFirst = 0
    /\ outcome = <<>> /\ facts = {} /\ gone = {}
    /\ resolution = NoCall /\ probe = NoCall /\ before = NoCall
    /\ ops = <<>> /\ seen = NoCall /\ up = FALSE

\* ------------------------------------------------------------------- main
\* mutant: a successful resolution leaves the backoff as it was
ResolveOk_KeepBackoff ==
    /\ pc = "top" /\ client = NoClient
    /\ issued < MaxHandles
    /\ TRUE \in (IF up THEN ResolverEndsUp ELSE ResolverEnds)
    /\ client' = issued + 1
    /\ issued' = issued + 1
    /\ pc' = "scrape"
    /\ ev' = "resolved"
    /\ runSleeps' = <<>> /\ runFirst' = 0
    /\ slept' = 0
    /\ UNCHANGED <<gauges, baselines, backoff, exit_code, discarded, used, reused, passHist>>
    /\ UNCHANGED aux

\* mutant: the handle create_docker_client returns is not kept
ResolveOk_HandleLost ==
    /\ pc = "top" /\ client = NoClient
    /\ issued < MaxHandles
    /\ TRUE \in (IF up THEN ResolverEndsUp ELSE ResolverEnds)
    /\ client' = NoClient
    /\ issued' = issued + 1
    /\ backoff' = BackoffFloor
    /\ pc' = "scrape"
    /\ ev' = "resolved"
    /\ runSleeps' = <<>> /\ runFirst' = 0
    /\ slept' = 0
    /\ UNCHANGED <<gauges, baselines, exit_code, discarded, used, reused, passHist>>
    /\ UNCHANGED aux

\* client is None and create_docker_client() returns: backoff = 1.0, go on to scrape
ResolveOk ==
    /\ pc = "top" /\ client = NoClient
    /\ issued < MaxHandles
    /\ TRUE \in (IF up THEN ResolverEndsUp ELSE ResolverEnds)
    /\ client' = issued + 1
    /\ issued' = issued + 1
    /\ backoff' = BackoffFloor
    /\ pc' = "scrape"
    /\ ev' = "resolved"
    /\ runSleeps' = <<>> /\ runFirst' = 0
    /\ slept' = 0
    /\ UNCHANGED <<gauges, baselines, exit_code, discarded, used, reused, passHist>>
    /\ UNCHANGED aux

\* mutant: a failed resolution clears the five metrics
ResolveFail_ClearRegistry ==
    /\ pc = "top" /\ client = NoClient
    /\ FALSE \in (IF up THEN ResolverEndsUp ELSE ResolverEnds)
    /\ client' = NoClient
    /\ pc' = "sleep"
    /\ ev' = "resolve_fail"
    /\ slept' = 0
    /\ g_health' = EmptyGauge /\ g_status' = EmptyGauge /\ g_running' = EmptyGauge
    /\ g_restart' = EmptyGauge /\ g_started_at' = EmptyGauge
    /\ UNCHANGED <<baselines, backoff, exit_code, issued, discarded, used, reused,
                   runSleeps, runFirst, passHist>>
    /\ UNCHANGED aux

\* client is None and create_docker_client() raises DockerException: client = None
ResolveFail ==
    /\ pc = "top" /\ client = NoClient
    /\ FALSE \in (IF up THEN ResolverEndsUp ELSE ResolverEnds)
    /\ client' = NoClient
    /\ pc' = "sleep"
    /\ ev' = "resolve_fail"
    /\ slept' = 0
    /\ UNCHANGED <<gauges, baselines, backoff, exit_code, issued, discarded, used, reused,
                   runSleeps, runFirst, passHist>>
    /\ UNCHANGED aux

AtScrape == pc = "scrape" \/ (pc = "top" /\ client # NoClient)

\* mutant: the handle is kept after a DockerException of the pass
ScrapeDockerException_KeepClient ==
    /\ AtScrape
    /\ ~up
    /\ used' = client
    /\ reused' = (reused \/ client \in discarded)
    /\ pc' = "sleep"
    /\ ev' = "enum_docker"
    /\ slept' = 0
    /\ UNCHANGED <<gauges, baselines, client, backoff, exit_code, issued, discarded,
                   runSleeps, runFirst, passHist>>
    /\ UNCHANGED aux

\* scrape_once raises DockerException before the loop over containers: client = None
ScrapeDockerException ==
    /\ AtScrape
    /\ ~up
    /\ used' = client
    /\ reused' = (reused \/ client \in discarded)
    /\ discarded' = discarded \cup {client}
    /\ client' = NoClient
    /\ pc' = "sleep"
    /\ ev' = "enum_docker"
    /\ slept' = 0
    /\ UNCHANGED <<gauges, baselines, backoff, exit_code, issued, runSleeps, runFirst, passHist>>
    /\ UNCHANGED aux

\* mutant: an unexpected exception drops the handle like a DockerException
ScrapeUnexpected_DropClient ==
    /\ AtScrape
    /\ ~up
    /\ used' = client
    /\ reused' = (reused \/ client \in discarded)
    /\ discarded' = discarded \cup {client}
    /\ client' = NoClient
    /\ pc' = "sleep"
    /\ ev' = "enum_other"
    /\ slept' = 0
    /\ UNCHANGED <<gauges, baselines, backoff, exit_code, issued, runSleeps, runFirst, passHist>>
    /\ UNCHANGED aux

\* mutant: an unexpected exception leaves main and ends the process with code 1
ScrapeUnexpected_Reraise ==
    /\ AtScrape
    /\ ~up
    /\ pc' = "exited"
    /\ exit_code' = 1
    /\ ev' = "enum_other"
    /\ used' = client
    /\ reused' = (reused \/ client \in discarded)
    /\ slept' = 0
    /\ UNCHANGED <<gauges, baselines, client, backoff, issued, discarded,
                   runSleeps, runFirst, passHist>>
    /\ UNCHANGED aux

\* scrape_once raises another Exception before the loop over containers: logged only
ScrapeUnexpected ==
    /\ AtScrape
    /\ ~up
    /\ used' = client
    /\ reused' = (reused \/ client \in discarded)
    /\ pc' = "sleep"
    /\ ev' = "enum_other"
    /\ slept' = 0
    /\ UNCHANGED <<gauges, baselines, client, backoff, exit_code, issued, discarded,
                   runSleeps, runFirst, passHist>>
    /\ UNCHANGED aux

\* scrape_once returns: containers.list() answered and the pass ran to its end
ScrapePassOn(lists) ==
    /\ AtScrape
    /\ used' = client
    /\ reused' = (reused \/ client \in discarded)
    /\ pc' = "sleep"
    /\ ev' = "pass"
    /\ slept' = 0
    /\ UNCHANGED <<client, backoff, exit_code, issued, discarded, runSleeps, runFirst>>
    /\ UNCHANGED aux
    /\ \E e \in lists :
          /\ outcome' = e.outcome
          /\ facts' = e.facts
          /\ gone' = {f.labels[3] : f \in facts} \ DOMAIN e.outcome
          /\ \E R \in {scrape_once(Registry, e.containers)} :
                /\ g_health' = R.g_health /\ g_status' = R.g_status
                /\ g_running' = R.g_running /\ g_restart' = R.g_restart
                /\ g_started_at' = R.g_started_at
                /\ last_h' = R.last_h /\ last_s' = R.last_s /\ last_rn' = R.last_rn
                /\ last_rc' = R.last_rc /\ last_sa' = R.last_sa

\* the runtime answers with any list of up to MaxContainers containers
ScrapePass == ScrapePassOn(Enumerations)

\* mutant: the backoff is doubled without the ceiling
Sleep_NoCeiling ==
    /\ pc = "sleep"
    /\ slept' = IF client # NoClient THEN INTERVAL ELSE Min(backoff, BackoffCeiling)
    /\ backoff' = IF client = NoClient THEN backoff * 2 ELSE backoff
    /\ runSleeps' = IF ev = "resolve_fail"
                    THEN (IF Len(runSleeps) < MaxRun THEN Append(runSleeps, slept')
                          ELSE Append(Tail(runSleeps), slept'))
                    ELSE <<>>
    /\ runFirst' = IF ev = "resolve_fail" THEN (IF runFirst = 0 THEN slept' ELSE runFirst) ELSE 0
    /\ pc' = "top"
    /\ UNCHANGED <<gauges, baselines, client, exit_code, issued, discarded, used, reused, ev, passHist>>
    /\ UNCHANGED aux

\* time.sleep(INTERVAL if client else min(backoff, 30.0)), then the backoff update
Sleep ==
    /\ pc = "sleep"
    /\ slept' = IF client # NoClient THEN INTERVAL ELSE Min(backoff, BackoffCeiling)
    /\ backoff' = IF client = NoClient THEN Min(backoff * 2, BackoffCeiling) ELSE backoff
    /\ runSleeps' = IF ev = "resolve_fail"
                    THEN (IF Len(runSleeps) < MaxRun THEN Append(runSleeps, slept')
                          ELSE Append(Tail(runSleeps), slept'))
                    ELSE <<>>
    /\ runFirst' = IF ev = "resolve_fail" THEN (IF runFirst = 0 THEN slept' ELSE runFirst) ELSE 0
    /\ pc' = "top"
    /\ UNCHANGED <<gauges, baselines, client, exit_code, issued, discarded, used, reused, ev, passHist>>
    /\ UNCHANGED aux

\* KeyboardInterrupt anywhere in main: log, sys.exit(0); the process state is gone
Interrupt ==
    /\ pc # "exited"
    /\ pc' = "exited"
    /\ exit_code' = 0
    /\ g_health' = EmptyGauge /\ g_status' = EmptyGauge /\ g_running' = EmptyGauge
    /\ g_restart' = EmptyGauge /\ g_started_at' = EmptyGauge
    /\ last_h' = {} /\ last_s' = {} /\ last_rn' = {} /\ last_rc' = {} /\ last_sa' = {}
    /\ client' = NoClient /\ backoff' = BackoffFloor
    /\ issued' = 0 /\ discarded' = {} /\ used' = NoClient /\ reused' = FALSE
    /\ ev' = "interrupt" /\ slept' = 0 /\ runSleeps' = <<>> /\ runFirst' = 0
    /\ outcome' = <<>> /\ facts' = {} /\ gone' = {}
    /\ UNCHANGED aux

Next ==
    \/ ResolveOk
    \/ ResolveFail
    \/ ScrapeDockerException
    \/ ScrapeUnexpected
    \/ ScrapePass
    \/ Sleep
    \/ Interrupt

\* the runtime comes back for good: from here on a candidate endpoint can be
\* connected to and containers.list() answers. Handles are counted up to
\* MaxHandles, so it comes back while the loop can still be given one.
Recover ==
    /\ ~up
    /\ pc # "exited"
    /\ client # NoClient \/ issued < MaxHandles
    /\ up' = TRUE
    /\ UNCHANGED <<gauges, baselines, loop, passHist, resolution, probe, before, ops, seen>>

Spec == Init /\ [][Next]_vars

\* ------------------------------------------------- one resolver call alone
\* create_docker_client() called once, on any configuration and host state
ResolverCall ==
    /\ resolution = NoCall
    /\ \E x \in ResolverRuns : resolution' = x
    /\ UNCHANGED <<gauges, baselines, loop, passHist, probe, before, ops, seen, up>>

SpecResolver == Init /\ [][ResolverCall]_vars

\* ---------------------------------------------- one container, one pass
\* scrape_once on a fresh registry with a list of one container
ProbePass ==
    /\ probe = NoCall
    /\ \E c \in ProbeContainers :
          \E R \in {scrape_once(Registry, <<c>>)} :
             /\ g_health' = R.g_health /\ g_status' = R.g_status
             /\ g_running' = R.g_running /\ g_restart' = R.g_restart
             /\ g_started_at' = R.g_started_at
             /\ last_h' = R.last_h /\ last_s' = R.last_s /\ last_rn' = R.last_rn
             /\ last_rc' = R.last_rc /\ last_sa' = R.last_sa
             /\ probe' = c
    /\ UNCHANGED <<loop, passHist, resolution, before, ops, seen, up>>

SpecExtract == Init /\ [][ProbePass]_vars

\* ------------------------------------------------- the same list twice
\* scrape_once on the list e, on the registry as it is
PassOn(e) ==
    \E R \in {scrape_once(Registry, e.containers)} :
       /\ g_health' = R.g_health /\ g_status' = R.g_status
       /\ g_running' = R.g_running /\ g_restart' = R.g_restart
       /\ g_started_at' = R.g_started_at
       /\ last_h' = R.last_h /\ last_s' = R.last_s /\ last_rn' = R.last_rn
       /\ last_rc' = R.last_rc /\ last_sa' = R.last_sa
       /\ outcome' = e.outcome
       /\ facts' = e.facts
       /\ gone' = {f.labels[3] : f \in facts} \ DOMAIN e.outcome

\* a pass on whatever the runtime lists now
ListPass ==
    /\ \E e \in Enumerations :
          /\ PassOn(e)
          /\ before' = [list |-> e, registry |-> Registry', failed |-> FALSE, again |-> FALSE]
    /\ UNCHANGED <<loop, resolution, probe, ops, seen, up>>

\* the next pass, with the runtime listing what it listed in the pass before
RepeatPass ==
    /\ before # NoCall
    /\ PassOn(before.list)
    /\ before' = [before EXCEPT !.again = TRUE]
    /\ UNCHANGED <<loop, resolution, probe, ops, seen, up>>

\* a pass in between whose containers.list() raises: scrape_once has
\* touched nothing
ListFails ==
    /\ before # NoCall /\ ~before.failed
    /\ before' = [before EXCEPT !.failed = TRUE]
    /\ UNCHANGED <<gauges, baselines, loop, passHist, resolution, probe, ops, seen, up>>

SpecTwice == Init /\ [][ListPass \/ ListFails \/ RepeatPass]_vars

\* ------------------------------------- a pass call by call, and a reader
\* The HTTP listener thread of start_http_server collects the gauges while
\* main runs scrape_once; a pass is the sequence of its calls on the registry.
SetOp(g, labels, v) == [op |-> "set", g |-> g, labels |-> labels, v |-> v]
RemoveOp(g, labels) == [op |-> "remove", g |-> g, labels |-> labels]

\* the calls of set_one_hot, category k onwards, then the update of _last_s
RECURSIVE OneHotOps(_, _, _)
OneHotOps(k, labels, status_value) ==
    IF k > Len(Categories) THEN <<[op |-> "extend", rows |-> StatusRows(labels)]>>
    ELSE <<SetOp("g_status", Append(labels, Categories[k]),
                 IF Categories[k] = status_value THEN 1 ELSE 0)>>
         \o OneHotOps(k + 1, labels, status_value)

\* the calls of the five publishing lines
PublishOps(f) ==
    <<SetOp("g_health", f.labels, f.num)>>
    \o OneHotOps(1, f.labels, f.status)
    \o <<SetOp("g_running", f.labels, f.running),
         SetOp("g_restart", f.labels, f.restart_count),
         SetOp("g_started_at", f.labels, f.started_at)>>

RECURSIVE ListOps(_, _)
ListOps(i, containers) ==
    IF i > Len(containers) THEN <<>>
    ELSE (IF Tried(containers[i]).raises THEN <<>> ELSE PublishOps(Tried(containers[i]).facts))
         \o ListOps(i + 1, containers)

\* the remove calls of "for labels in last - now", in some order
RECURSIVE RemoveOps(_, _)
RemoveOps(g, stale) ==
    IF stale = {} THEN <<>>
    ELSE LET labels == CHOOSE x \in stale : TRUE
         IN <<RemoveOp(g, labels)>> \o RemoveOps(g, stale \ {labels})

\* every call of scrape_once on the registry, in program order
PassOps(reg, containers) ==
    LET now == {f.labels : f \in FactsOf(containers)}
        now_s == UNION {StatusRows(l) : l \in now}
    IN ListOps(1, containers)
       \o RemoveOps("g_health", reg.last_h \ now)
       \o RemoveOps("g_running", reg.last_rn \ now)
       \o RemoveOps("g_restart", reg.last_rc \ now)
       \o RemoveOps("g_started_at", reg.last_sa \ now)
       \o RemoveOps("g_status", (reg.last_s \cup now_s) \ now_s)
       \o <<[op |-> "assign", now |-> now, now_s |-> now_s]>>

\* one call made
ApplyOp(R, o) ==
    CASE o.op = "set" -> [R EXCEPT ![o.g] = GaugeSet(@, o.labels, o.v)]
      [] o.op = "remove" -> [R EXCEPT ![o.g] = GaugeRemove(@, o.labels)]
      [] o.op = "extend" -> [R EXCEPT !.last_s = @ \cup o.rows]
      [] o.op = "assign" -> [R EXCEPT !.last_h = o.now, !.last_s = o.now_s, !.last_rn = o.now,
                                      !.last_rc = o.now, !.last_sa = o.now]

\* the lists the call-by-call passes are given
ShortLists == {e \in Enumerations : Len(e.containers) <= MaxListed}

\* scrape_once is entered and containers.list() returns
BeginPass ==
    /\ ops = <<>>
    /\ \E e \in ShortLists : ops' = PassOps(Registry, e.containers)
    /\ UNCHANGED <<gauges, baselines, loop, passHist, resolution, probe, before, seen, up>>

\* main makes the next call of the pass
WriteStep ==
    /\ ops # <<>>
    /\ \E R \in {ApplyOp(Registry, Head(ops))} :
          /\ g_health' = R.g_health /\ g_status' = R.g_status
          /\ g_running' = R.g_running /\ g_restart' = R.g_restart
          /\ g_started_at' = R.g_started_at
          /\ last_h' = R.last_h /\ last_s' = R.last_s /\ last_rn' = R.last_rn
          /\ last_rc' = R.last_rc /\ last_sa' = R.last_sa
    /\ ops' = Tail(ops)
    /\ UNCHANGED <<loop, passHist, resolution, probe, before, seen, up>>

\* the listener collects g_status
Read ==
    /\ seen' = g_status
    /\ UNCHANGED <<gauges, baselines, loop, passHist, resolution, probe, before, ops, up>>

SpecReader == Init /\ [][BeginPass \/ WriteStep \/ Read]_vars

\* ------------------------------------------------------------- properties
TupleSets == <<DOMAIN g_health, DOMAIN g_running, DOMAIN g_restart, DOMAIN g_started_at>>

\* the label tuples the last completed pass derived
DerivedLabels == {f.labels : f \in facts}

\* no gauge holds a tuple of the container with this short_id
NoSeries(sid) ==
    /\ \A k \in 1..Len(TupleSets) : \A t \in TupleSets[k] : t[3] # sid
    /\ \A t \in DOMAIN g_status : t[3] # sid

\* every gauge holds a tuple of the container with this short_id
AllSeries(sid) ==
    /\ \A k \in 1..Len(TupleSets) : \E t \in TupleSets[k] : t[3] = sid
    /\ \E t \in DOMAIN g_status : t[3] = sid

Failed == {sid \in DOMAIN outcome : outcome[sid] # "ok"}

\* C1: once a pass has completed, each of the five gauges publishes exactly the
\* label tuples derived from the containers that pass listed and processed
\* without error, whatever passes, aborted passes, failures and reconnects
\* came before or after.
C1_PublishedIsDerived ==
    /\ \A k \in 1..Len(TupleSets) : TupleSets[k] = DerivedLabels
    /\ DOMAIN g_status = UNION {StatusRows(l) : l \in DerivedLabels}

C1_Witness ==
    /\ ev = "pass" /\ pc = "top" /\ issued > 1
    /\ gone # {} /\ facts # {}

\* C2: a container that a completed pass published and that the list of the
\* next completed pass does not hold has no label tuple left in any of the
\* five gauges, the four status rows included.
C2_Staleness ==
    \A sid \in gone : sid \notin DOMAIN outcome /\ NoSeries(sid)

C2_Witness ==
    /\ ev = "pass" /\ discarded # {}
    /\ Cardinality(gone) > 1 /\ DOMAIN outcome = {}

\* C3: every identity with a row in docker_container_health_status has all
\* four category rows, exactly one of them 1 and the others 0, and the row
\* that is 1 is the category the last pass derived for that container.
C3_OneHot ==
    \A id \in {SubSeq(t, 1, 4) : t \in DOMAIN g_status} :
        /\ StatusRows(id) \subseteq DOMAIN g_status
        /\ \A r \in StatusRows(id) : g_status[r] \in {0, 1}
        /\ Cardinality({r \in StatusRows(id) : g_status[r] = 1}) = 1
        /\ \E f \in facts : f.labels = id /\ g_status[Append(id, f.status)] = 1

C3_Witness ==
    /\ ev = "pass"
    /\ \E f1 \in facts : \E f2 \in facts : f1.status = "unhealthy" /\ f2.status = "none"
    /\ \E t \in DOMAIN g_status : t[5] = "unhealthy" /\ g_status[t] = 1

\* C4: a pass that raises a connection-level error leaves the loop without a
\* handle, the handle it used is dropped, and no scrape pass is ever given a
\* dropped handle: the handle the loop holds was never dropped.
C4_DiscardedHandleNotReused ==
    /\ ev = "enum_docker" => client = NoClient /\ used \in discarded
    /\ client # NoClient => client \notin discarded
    /\ ~reused

C4_Witness ==
    /\ ev = "pass" /\ discarded # {}
    /\ used = client /\ used \notin discarded

\* C5: a connection-level error raised while a listed container is re-fetched
\* aborts the pass: no container after it is processed, and the loop is
\* without a handle when the iteration ends.
C5_MidTickFailureAborts ==
    (ev = "pass" /\ pc = "sleep") =>
        \A sid \in DOMAIN outcome : outcome[sid] = "docker_error" =>
            /\ client = NoClient
            /\ \A f \in facts :
                  \E i, j \in 1..Len(ShortIds) :
                      ShortIds[i] = f.labels[3] /\ ShortIds[j] = sid /\ i < j

\* C6: when the try block of a listed container raises, that container has no
\* label tuple in any gauge after the pass, every other listed container is
\* published in all five gauges, the loop keeps its handle and the sleep that
\* follows is the scrape interval.
C6_PerContainerIsolation ==
    (ev = "pass" /\ Failed # {}) =>
        /\ \A sid \in Failed : NoSeries(sid)
        /\ \A sid \in (DOMAIN outcome) \ Failed : AllSeries(sid)
        /\ client # NoClient /\ client = used
        /\ pc \in {"sleep", "top"}
        /\ pc = "top" => slept = INTERVAL

C6_Witness ==
    /\ ev = "pass" /\ pc = "top"
    /\ Cardinality(Failed) = 1
    /\ (DOMAIN outcome) \ Failed # {}

\* the sleeps of a run of resolver failures that starts at the floor
FloorRun == <<1, 2, 4, 8, 16, 30, 30>>

\* C7: over a run of resolver failures in a row the sleeps never decrease,
\* none exceeds the ceiling, each is the double of the one before or the
\* ceiling (1, 2, 4, 8, 16, 30, 30 from the floor), and backoff stays in 1..30.
C7_BackoffGrowth ==
    /\ backoff \in BackoffFloor..BackoffCeiling
    /\ \A i \in 1..Len(runSleeps) : runSleeps[i] \in BackoffFloor..BackoffCeiling
    /\ \A i \in 1..(Len(runSleeps) - 1) :
          /\ runSleeps[i] <= runSleeps[i + 1]
          /\ runSleeps[i + 1] = Min(2 * runSleeps[i], BackoffCeiling)
    /\ (runSleeps # <<>> /\ runSleeps[1] = BackoffFloor) =>
          \A i \in 1..Min(Len(runSleeps), Len(FloorRun)) : runSleeps[i] = FloorRun[i]

C7_Witness ==
    /\ Len(runSleeps) >= Len(FloorRun)
    /\ \A i \in 1..Len(FloorRun) : runSleeps[i] = FloorRun[i]

\* C8 as stated: the first resolver failure after a connected period sleeps
\* for the floor backoff.
C8_FirstFailureSleepsFloor ==
    (issued > 0 /\ runFirst # 0) => runFirst = BackoffFloor

\* C8 as amended: while the loop holds a handle the backoff is the floor; the
\* connection-level failure that ends the connected period sleeps for the
\* floor and doubles the backoff, so that the first resolver failure after a
\* connected period sleeps for twice the floor.
C8_ResetThenDoubled ==
    /\ client # NoClient => backoff = BackoffFloor
    /\ (ev = "enum_docker" /\ pc = "sleep") => backoff = BackoffFloor
    /\ (ev = "enum_docker" /\ pc = "top") =>
          slept = BackoffFloor /\ backoff = 2 * BackoffFloor
    /\ (issued > 0 /\ runFirst # 0) => runFirst = 2 * BackoffFloor

C8_Witness ==
    /\ issued > 1 /\ client = NoClient
    /\ runFirst = 2 * BackoffFloor /\ Len(runSleeps) > 1

\* a step of the resolver, of a scrape pass, of the sleep
ResolverStep == pc = "top" /\ ev' \in {"resolved", "resolve_fail"}
UnexpectedStep == pc \in {"top", "scrape"} /\ pc' = "sleep" /\ ev' = "enum_other"
SleepStep == pc = "sleep" /\ pc' = "top"

\* C9: an unexpected (non-runtime) error of a scrape pass leaves the handle
\* and the backoff as they were and is followed by a sleep of the scrape
\* interval; the loop loses its handle only by a connection-level failure of
\* a pass, and the resolver runs only when the loop holds no handle.
C9_Propagation ==
    [][/\ UnexpectedStep => client' = client /\ client # NoClient /\ backoff' = backoff
       /\ (SleepStep /\ ev = "enum_other") =>
             slept' = INTERVAL /\ client' = client /\ backoff' = backoff
       /\ (client # NoClient /\ client' = NoClient) => ev' \in {"enum_docker", "interrupt"}
       /\ (client = NoClient /\ client' # NoClient) => ev' = "resolved"
       /\ ResolverStep => client = NoClient]_vars

C9_Witness ==
    /\ ev = "enum_other" /\ pc = "top"
    /\ slept = INTERVAL /\ client = used /\ client # NoClient

LoopStep ==
    ResolveOk \/ ResolveFail \/ ScrapeDockerException \/ ScrapeUnexpected \/ ScrapePass \/ Sleep

\* C10: the loop never stops by itself: while the process has not been
\* interrupted a step of the loop is possible, every failure leads to the
\* sleep, and the process is gone only after an interrupt, with exit code 0.
C10_NoTerminalState ==
    /\ pc \in {"top", "scrape", "sleep", "exited"}
    /\ pc # "exited" => exit_code = Running /\ ENABLED LoopStep
    /\ pc = "exited" => exit_code = 0 /\ ev = "interrupt"
    /\ ev \in {"resolve_fail", "enum_docker", "enum_other", "pass"} => pc \in {"sleep", "top"}

C10_Witness ==
    /\ pc = "top" /\ ev = "resolve_fail"
    /\ discarded # {} /\ facts # {} /\ Failed # {}

\* ------------------------------------------------------------ C11 .. C13
\* index of the first occurrence of x in list, 0 when it is not there
FirstPos(x, list) ==
    IF InSeq(x, list) THEN CHOOSE i \in 1..Len(list) : list[i] = x /\ \A j \in 1..(i - 1) : list[j] # x
    ELSE 0

\* the per-user runtime-directory socket of a configuration, if it has one
PerUserSocket(cfg) ==
    IF cfg.xdg # Unset THEN <<Url("unix", RStrip(cfg.xdg) \o <<"docker.sock">>)>>
    ELSE IF cfg.uid # NoUid THEN <<Url("unix", <<"run", "user", ToString(cfg.uid), "docker.sock">>)>>
    ELSE <<>>

\* the order the candidates are to be tried in: override, defaults with the
\* per-user socket second, environment-derived candidate
StatedOrder(cfg) ==
    (IF cfg.host # EmptyUrl THEN <<canonical_unix_path(cfg.host)>> ELSE <<>>)
    \o <<DockerSock>> \o PerUserSocket(cfg)
    \o <<Url("unix", <<"run", "user", "1000", "docker.sock">>)>>
    \o <<from_env>>

\* the candidate is passed over without a connection attempt
Skipped(c, env) == c.scheme = "unix" /\ c \notin env.exists

\* the candidates up to candidate k that are not passed over, in order
RECURSIVE TriedUpTo(_, _, _)
TriedUpTo(k, cands, env) ==
    IF k = 0 THEN <<>>
    ELSE IF Skipped(cands[k], env) THEN TriedUpTo(k - 1, cands, env)
    ELSE Append(TriedUpTo(k - 1, cands, env), cands[k])

\* C11: the resolver tries the override first (when set), then the default
\* sockets with the per-user socket second, then the environment-derived
\* candidate; it returns the endpoint of the first candidate that is not
\* skipped and connects, attempts nothing after it, and attempts the
\* environment-derived candidate whenever all earlier ones were skipped or
\* failed.
C11_FirstMatchWins ==
    resolution # NoCall =>
        LET cfg == resolution.cfg
            env == resolution.env
            out == resolution.out
            cands == out.candidates
            order == StatedOrder(cfg)
            n == Len(cands)
            wins == {k \in 1..n : cands[k] \in env.live /\ ~Skipped(cands[k], env)}
        IN /\ SeqRange(cands) = SeqRange(order)
           /\ \A i, j \in 1..n : i < j => FirstPos(cands[i], order) < FirstPos(cands[j], order)
           /\ cands[n] = from_env
           /\ out.ok <=> wins # {}
           /\ out.ok =>
                 \E k \in wins :
                    /\ \A j \in wins : k <= j
                    /\ out.attempts = TriedUpTo(k, cands, env)
                    /\ out.used = IF cands[k] = from_env THEN FromEnvBaseUrl ELSE cands[k]
           /\ (\A j \in 1..(n - 1) : j \notin wins) => out.attempts[Len(out.attempts)] = from_env

\* an override is set, a candidate is skipped, one fails, a later one that is
\* not the last connects
C11_Witness ==
    /\ resolution # NoCall
    /\ resolution.cfg.host # EmptyUrl
    /\ resolution.out.ok
    /\ resolution.out.used \in SeqRange(resolution.out.candidates)
    /\ DOMAIN resolution.out.errors # {}
    /\ \E c \in SeqRange(resolution.out.candidates) :
          Skipped(c, resolution.env) /\ FirstPos(c, resolution.out.candidates)
                                          < FirstPos(resolution.out.used, resolution.out.candidates)

\* C12: a local-socket candidate whose path does not exist is neither
\* attempted nor given a failure reason; when every candidate is skipped or
\* fails the call raises, and the recorded reasons are one for each attempted
\* candidate and none for a skipped one.
C12_SkipAndErrorRecord ==
    resolution # NoCall =>
        LET env == resolution.env
            out == resolution.out
            cands == SeqRange(out.candidates)
        IN /\ \A c \in cands :
                 Skipped(c, env) => c \notin SeqRange(out.attempts) /\ c \notin DOMAIN out.errors
           /\ (\A c \in cands : Skipped(c, env) \/ c \notin env.live) => ~out.ok
           /\ ~out.ok =>
                 /\ DOMAIN out.errors = {c \in cands : ~Skipped(c, env)}
                 /\ DOMAIN out.errors = SeqRange(out.attempts)
                 /\ Len(out.attempts) = Cardinality(DOMAIN out.errors)
                 /\ \A c \in DOMAIN out.errors : out.errors[c] = Reason

\* the call raises after it skipped a socket and recorded two failures
C12_Witness ==
    /\ resolution # NoCall
    /\ ~resolution.out.ok
    /\ Cardinality(DOMAIN resolution.out.errors) > 1
    /\ \E c \in SeqRange(resolution.out.candidates) : Skipped(c, resolution.env)

ProbeLabels == <<probe.name, ImageLabel(probe.image), probe.short_id, host>>

\* the State object of the probed container, an object without keys when
\* attrs holds none
ProbeState ==
    IF probe.attrs.State.t = "dict" THEN probe.attrs.State
    ELSE [t |-> "dict", empty |-> TRUE, Health |-> Missing, Running |-> Missing,
          RestartCount |-> Missing, StartedAt |-> Missing]

\* the probed snapshot is well formed where the health block reads it
ProbeHealthWellFormed ==
    /\ probe # NoCall /\ probe.io = "ok"
    /\ probe.attrs.State.t \in {"dict", "missing", "none"}
    /\ ProbeState.Health.t \in {"dict", "missing", "none"}
    /\ ProbeState.Health.t = "dict" => ProbeState.Health.Status.t \in {"str", "missing", "none"}

\* category and score stated for a status text of a present health object
StatedHealth(text) ==
    CASE text \in {"healthy", "Healthy"} -> [status |-> "healthy", num |-> 10]
      [] text \in {"starting", "STARTING"} -> [status |-> "starting", num |-> 5]
      [] text \in {"unhealthy", "Unhealthy"} -> [status |-> "unhealthy", num |-> 0]
      [] OTHER -> [status |-> "none", num |-> 0]

\* C14: with a health object present the status healthy, starting or
\* unhealthy (in any letter case) gives that category with score 1.0, 0.5 or
\* 0.0 and any other status, empty and unset included, gives none with 0.0;
\* with no health object the category is none and the score 1.0.
C14_HealthTable ==
    ProbeHealthWellFormed =>
        LET health == ProbeState.Health
            stated == IF health.t = "dict"
                      THEN StatedHealth(IF health.Status.t = "str" THEN health.Status.s ELSE "")
                      ELSE [status |-> "none", num |-> 10]
        IN /\ ProbeLabels \in DOMAIN g_health
           /\ g_health[ProbeLabels] = stated.num
           /\ Append(ProbeLabels, stated.status) \in DOMAIN g_status
           /\ g_status[Append(ProbeLabels, stated.status)] = 1

\* C15: whatever fields of a snapshot are missing or malformed, a container
\* whose reload and image lookup succeeded is published in all five metrics,
\* with 0 for a start timestamp that is absent or does not parse.
C15_DerivationNeverFails ==
    (probe # NoCall /\ probe.io = "ok") =>
        /\ ProbeLabels \in DOMAIN g_health
        /\ StatusRows(ProbeLabels) \subseteq DOMAIN g_status
        /\ ProbeLabels \in DOMAIN g_running
        /\ ProbeLabels \in DOMAIN g_restart
        /\ ProbeLabels \in DOMAIN g_started_at
        /\ ProbeState.StartedAt \notin {PyStr(Timestamp), PyStr("2025-11-06T21:27:08.123456789Z")}
              => g_started_at[ProbeLabels] = 0

\* the number a restart-count field stands for, -1 when it is no number
NumberOf(v) ==
    CASE v.t = "int" -> v.n
      [] v = PyStr("5") -> 5
      [] OTHER -> -1

C17_Idempotent ==
    (before # NoCall /\ before.again) => Registry = before.registry

\* the repeated list has a container that is published and one whose try
\* block raises, and an enumeration failed in between
C17_Witness ==
    /\ before # NoCall /\ before.again
    /\ g_health # EmptyGauge
    /\ before.list.facts # {}
    /\ \E sid \in DOMAIN before.list.outcome : before.list.outcome[sid] # "ok"
    /\ before.registry.last_s = DOMAIN g_status
    /\ before.failed

\* ------------------------------------------------------------------- C19
\* the try block of an iteration ends in a resolver failure or in a failure
\* of the enumeration
FailedIterationStep ==
    /\ pc # "sleep" /\ pc' = "sleep"
    /\ ev' \in {"resolve_fail", "enum_docker", "enum_other"}

BaselinesMatch ==
    /\ last_h = DOMAIN g_health /\ last_s = DOMAIN g_status
    /\ last_rn = DOMAIN g_running /\ last_rc = DOMAIN g_restart
    /\ last_sa = DOMAIN g_started_at

\* C19: a failed resolver call and a pass whose enumeration fails leave the
\* label tuples and values of the five metrics and the five baselines as
\* they were, and at every iteration boundary each baseline is the set of
\* label tuples published for its metric.
C19_FailureFrame ==
    /\ [][FailedIterationStep => UNCHANGED <<gauges, baselines>>]_vars
    /\ [](pc \in {"top", "sleep"} => BaselinesMatch)

\* the resolver failed while series of an earlier pass are published
C19_Witness ==
    /\ ev = "resolve_fail" /\ pc = "top"
    /\ g_health # EmptyGauge
    /\ discarded # {}

\* ------------------------------------------------------------------- C18
\* C18: whatever the reader collects while a pass is under way, every
\* identity with a status row has all four rows, exactly one of them 1.
C18_ReaderSeesOneHot ==
    seen # NoCall =>
        \A row \in DOMAIN seen :
           LET labels == SubSeq(row, 1, 4)
           IN /\ StatusRows(labels) \subseteq DOMAIN seen
              /\ Cardinality({r \in StatusRows(labels) : seen[r] = 1}) = 1

\* ------------------------------------------------------------------- C20
\* main keeps running: the call in progress returns or raises and every
\* time.sleep ends; an interrupt may come at any time or never. What the
\* runtime lists has no part in this, the lists are the short ones.
ShortPass == ScrapePassOn(ShortLists)

LiveStep ==
    ResolveOk \/ ResolveFail \/ ScrapeDockerException \/ ScrapeUnexpected \/ ShortPass \/ Sleep

SpecLive == Init /\ [][LiveStep \/ Interrupt \/ Recover]_vars /\ WF_vars(LiveStep)

Exited == pc = "exited"
PassDone == client # NoClient /\ ev = "pass" /\ pc = "sleep"

\* C20: once the runtime is reachable and keeps answering, the loop, unless
\* it is interrupted, gets connected and completes a pass, having slept at
\* most the backoff ceiling between resolver attempts; from then on it keeps
\* its handle and completes a pass after every sleep of the scrape interval.
C20_RecoversAndStays ==
    /\ up ~> (Exited \/ PassDone)
    /\ [][(up /\ client # NoClient) => (client' = client \/ Exited')]_vars
    /\ [][(up /\ PassDone /\ pc' = "top") => slept' = INTERVAL]_vars
    /\ [](ev = "resolve_fail" /\ pc = "top" => slept <= BackoffCeiling)

\* the runtime came back while the loop was backing off without a handle,
\* and the loop has completed a pass since
C20_Witness ==
    /\ up /\ PassDone
    /\ discarded # {}
    /\ used = issued /\ issued > 1

====
